---- MODULE Spec2Model ----
(***************************************************************************)
(* Model of the CANtact userspace driver (driver/src/lib.rs): the Frame    *)
(* codec, the bit timing search and the Interface state machine with its   *)
(* receive threads.                                                        *)
(*                                                                         *)
(* A u32 that uses its top bits (a wire CAN id, an echo id) is a record    *)
(* [hi, lo]: hi holds bits 31..29, lo holds bits 28..0, so that the value  *)
(* is hi * 2^29 + lo and every bit of the 32 is kept.                      *)
(***************************************************************************)
EXTENDS Integers, Sequences, FiniteSets, TLC

\* ------------------------------------------------------------------ bounds

\* Largest channel_count (zero indexed) a device of the model reports.
MaxIcount == 1
\* Receive threads the model lets start() spawn in one behaviour.
MaxTasks == 2
\* Wire frames the device transport produces in one behaviour.
MaxFrames == 2

\* ------------------------------------------------------- wire constants

\* device::gsusb feature bits of bt_consts.feature
GS_CAN_FEATURE_LISTEN_ONLY == 1
GS_CAN_FEATURE_LOOP_BACK == 2
GS_CAN_FEATURE_FD == 256
\* device::gsusb mode flags of Mode.flags
GS_CAN_MODE_LISTEN_ONLY == 1
GS_CAN_MODE_LOOP_BACK == 2
GS_CAN_MODE_FD == 256
\* device::gsusb HostFrame.flags bits
GS_CAN_FLAG_FD == 2
GS_CAN_FLAG_BRS == 4
GS_CAN_FLAG_ESI == 8
\* device::gsusb flag bits of HostFrame.can_id (0x8000_0000, 0x4000_0000,
\* 0x2000_0000) and the echo id of a frame that is not an echo (0xFFFF_FFFF)
GSUSB_EXT_FLAG == [hi |-> 4, lo |-> 0]
GSUSB_RTR_FLAG == [hi |-> 2, lo |-> 0]
GSUSB_ERR_FLAG == [hi |-> 1, lo |-> 0]
GSUSB_RX_ECHO_ID == [hi |-> 7, lo |-> 536870911]
\* 0x1FFF_FFFF, the mask from_host_frame applies to the wire id
CAN_ID_MASK == [hi |-> 0, lo |-> 536870911]
\* the echo id to_host_frame writes
TX_ECHO_ID == [hi |-> 0, lo |-> 1]
\* length of HostFrame.data
HOST_DATA_LEN == 64

\* ------------------------------------------------------------ bit helpers

RECURSIVE BitAnd(_, _)
\* a & b on naturals
BitAnd(a, b) ==
    IF a = 0 \/ b = 0 THEN 0
    ELSE (a % 2) * (b % 2) + 2 * BitAnd(a \div 2, b \div 2)

RECURSIVE BitOr(_, _)
\* a | b on naturals
BitOr(a, b) ==
    IF a = 0 THEN b
    ELSE IF b = 0 THEN a
    ELSE (IF a % 2 = 1 \/ b % 2 = 1 THEN 1 ELSE 0) + 2 * BitOr(a \div 2, b \div 2)

\* x | y and x & y on u32 records
Or32(x, y) == [hi |-> BitOr(x.hi, y.hi), lo |-> BitOr(x.lo, y.lo)]
And32(x, y) == [hi |-> BitAnd(x.hi, y.hi), lo |-> BitAnd(x.lo, y.lo)]
\* x > 0 on a u32 record
Pos32(x) == x.hi > 0 \/ x.lo > 0

Min(a, b) == IF a < b THEN a ELSE b

\* -------------------------------------------------------------- Frame

\* Frame::data_as_array: the payload copied into a zeroed 64 byte buffer,
\* cut at 64 bytes
data_as_array(f) ==
    LET len == Min(Len(f.data), HOST_DATA_LEN)
    IN  [i \in 1..HOST_DATA_LEN |-> IF i <= len THEN f.data[i] ELSE 0]

\* Frame::to_host_frame
to_host_frame(f) ==
    LET id0 == IF f.ext THEN Or32(f.can_id, GSUSB_EXT_FLAG) ELSE f.can_id
        id1 == IF f.rtr THEN Or32(id0, GSUSB_RTR_FLAG) ELSE id0
        id2 == IF f.err THEN Or32(id1, GSUSB_ERR_FLAG) ELSE id1
    IN  [echo_id |-> TX_ECHO_ID,
         flags |-> IF f.fd THEN GS_CAN_FLAG_FD ELSE 0,
         reserved |-> 0,
         can_id |-> id2,
         can_dlc |-> f.can_dlc,
         channel |-> f.channel,
         data |-> data_as_array(f)]

\* Option<Duration>
None == [some |-> FALSE, val |-> 0]
Some(d) == [some |-> TRUE, val |-> d]

\* a from_host_frame that compares the low 29 bits of the echo id only
from_host_frame_low_bits(hf) ==
    [can_id |-> And32(hf.can_id, CAN_ID_MASK),
     can_dlc |-> hf.can_dlc,
     data |-> hf.data,
     channel |-> hf.channel,
     ext |-> Pos32(And32(hf.can_id, GSUSB_EXT_FLAG)),
     loopback |-> hf.echo_id.lo # GSUSB_RX_ECHO_ID.lo,
     rtr |-> Pos32(And32(hf.can_id, GSUSB_RTR_FLAG)),
     fd |-> BitAnd(hf.flags, GS_CAN_FLAG_FD) > 0,
     brs |-> BitAnd(hf.flags, GS_CAN_FLAG_BRS) > 0,
     esi |-> BitAnd(hf.flags, GS_CAN_FLAG_ESI) > 0,
     err |-> Pos32(And32(hf.can_id, GSUSB_ERR_FLAG)),
     timestamp |-> None]

\* Frame::from_host_frame
from_host_frame(hf) ==
    [can_id |-> And32(hf.can_id, CAN_ID_MASK),
     can_dlc |-> hf.can_dlc,
     data |-> hf.data,
     channel |-> hf.channel,
     ext |-> Pos32(And32(hf.can_id, GSUSB_EXT_FLAG)),
     loopback |-> hf.echo_id # GSUSB_RX_ECHO_ID,
     rtr |-> Pos32(And32(hf.can_id, GSUSB_RTR_FLAG)),
     fd |-> BitAnd(hf.flags, GS_CAN_FLAG_FD) > 0,
     brs |-> BitAnd(hf.flags, GS_CAN_FLAG_BRS) > 0,
     esi |-> BitAnd(hf.flags, GS_CAN_FLAG_ESI) > 0,
     err |-> Pos32(And32(hf.can_id, GSUSB_ERR_FLAG)),
     timestamp |-> None]

\* a data_len that takes every DLC above 14 for the longest payload
data_len_clamped(f) ==
    LET dlc == f.can_dlc
    IN  IF dlc <= 8 THEN [panic |-> FALSE, len |-> dlc]
        ELSE IF dlc = 9 THEN [panic |-> FALSE, len |-> 12]
        ELSE IF dlc = 10 THEN [panic |-> FALSE, len |-> 16]
        ELSE IF dlc = 11 THEN [panic |-> FALSE, len |-> 20]
        ELSE IF dlc = 12 THEN [panic |-> FALSE, len |-> 24]
        ELSE IF dlc = 13 THEN [panic |-> FALSE, len |-> 32]
        ELSE IF dlc = 14 THEN [panic |-> FALSE, len |-> 48]
        ELSE [panic |-> FALSE, len |-> 64]

\* Frame::data_len: the payload length of a DLC; a DLC above 15 panics
data_len(f) ==
    LET dlc == f.can_dlc
    IN  IF dlc <= 8 THEN [panic |-> FALSE, len |-> dlc]
        ELSE IF dlc = 9 THEN [panic |-> FALSE, len |-> 12]
        ELSE IF dlc = 10 THEN [panic |-> FALSE, len |-> 16]
        ELSE IF dlc = 11 THEN [panic |-> FALSE, len |-> 20]
        ELSE IF dlc = 12 THEN [panic |-> FALSE, len |-> 24]
        ELSE IF dlc = 13 THEN [panic |-> FALSE, len |-> 32]
        ELSE IF dlc = 14 THEN [panic |-> FALSE, len |-> 48]
        ELSE IF dlc = 15 THEN [panic |-> FALSE, len |-> 64]
        ELSE [panic |-> TRUE, len |-> 0]

\* ----------------------------------------------------------- bit timing

\* calculate_bit_timing's search limits
max_brp == 32
min_seg1 == 3
max_seg1 == 18
min_seg2 == 2
max_seg2 == 8
\* tolerances whose last one is 5 / 100.0
tolerances_wide == <<0, 10, 500>>

\* the tolerances 0.0, 0.1 / 100.0 and 0.5 / 100.0 in units of 1 / 10000,
\* the unit err is rounded to
tolerances == <<0, 10, 50>>
\* what `f32 as u32` gives for +infinity (a zero bitrate): the cast
\* saturates. The model's integers end at 2^31 - 1; like u32::MAX the value
\* is above every quanta count the range checks accept and above every
\* seg1 + 1, so no subtraction from it wraps.
SATURATED_QUANTA == 2147483647

\* btq.round() as u32 for btq = clk / bitrate / brp: the quotient rounded
\* half away from zero. 0 / 0 is NaN, which casts to 0.
btq_rounded(clk, bitrate, brp) ==
    IF bitrate = 0 THEN (IF clk = 0 THEN 0 ELSE SATURATED_QUANTA)
    ELSE LET d == bitrate * brp
         IN  (clk \div d) + (IF 2 * (clk % d) >= d THEN 1 ELSE 0)

\* one decimal digit of x / y (x < y): <<digit, remainder>>
Digit(x, y) == <<(x * 10) \div y, (x * 10) % y>>

\* |((btq / btq_rounded - 1.0) * 10000.0).round()|: the relative error of the
\* rounded quanta count in units of 1 / 10000, rounded half away from zero.
\* The quotient |clk - r * d| / (r * d) is carried four decimal digits, one
\* at a time, so that no product leaves the model's integers.
err_abs(clk, bitrate, brp) ==
    LET d == bitrate * brp
        r == btq_rounded(clk, bitrate, brp)
        y == r * d
        x == IF clk >= y THEN clk - y ELSE y - clk
        d1 == Digit(x, y)
        d2 == Digit(d1[2], y)
        d3 == Digit(d2[2], y)
        d4 == Digit(d3[2], y)
    IN  ((d1[1] * 10 + d2[1]) * 10 + d3[1]) * 10 + d4[1]
        + (IF 2 * d4[2] >= y THEN 1 ELSE 0)

\* the greatest element of a non-empty set of numbers: the first one a
\* descending loop would meet
First_descending(S) == CHOOSE s \in S : \A t \in S : s >= t

\* the least element of a non-empty set of numbers: the first one an
\* ascending loop meets
First(S) == CHOOSE s \in S : \A t \in S : s <= t

\* seg2 = btq_rounded - seg1 - 1 on u32 goes below zero
seg2_underflows(r, seg1) == r < seg1 + 1

\* a range check of seg2 that has no upper limit
seg2_valid_no_max(r, seg1) ==
    /\ ~seg2_underflows(r, seg1)
    /\ r - seg1 - 1 >= min_seg2

\* seg2 is computed without underflow and passes the range check
seg2_valid(r, seg1) ==
    /\ ~seg2_underflows(r, seg1)
    /\ r - seg1 - 1 >= min_seg2
    /\ r - seg1 - 1 <= max_seg2

\* the loop `for seg1 in min_seg1..max_seg1` for one quanta count: it
\* returns at the first seg1 whose seg2 is valid. An underflow met before
\* that panics in a build with overflow checks; without them seg2 wraps to
\* 2^32 - (seg1 + 1 - btq_rounded), which is above max_seg2, and the loop
\* continues.
seg_search(r, checked) ==
    LET range == min_seg1..(max_seg1 - 1)
        valid == {s \in range : seg2_valid(r, s)}
        under == {s \in range : seg2_underflows(r, s)}
    IN  IF checked /\ \E u \in under : \A v \in valid : u < v
        THEN [kind |-> "Panic"]
        ELSE IF valid = {} THEN [kind |-> "None"]
        ELSE [kind |-> "Found", seg1 |-> First(valid),
              seg2 |-> r - First(valid) - 1]

\* the error check of one prescaler: `continue` when the quanta count is in
\* 4..=32 and its error is above the tolerance
rejected(clk, bitrate, tolerance, brp) ==
    LET r == btq_rounded(clk, bitrate, brp)
    IN  r >= 4 /\ r <= 32 /\ err_abs(clk, bitrate, brp) > tolerance

\* the loop `for brp in 1..(max_brp + 1)` for one tolerance: it ends at the
\* first prescaler that passes the error check and whose segment loop
\* returns or panics
brp_search(clk, bitrate, tolerance, checked) ==
    LET res(brp) == seg_search(btq_rounded(clk, bitrate, brp), checked)
        ends == {brp \in 1..max_brp :
                    /\ ~rejected(clk, bitrate, tolerance, brp)
                    /\ res(brp).kind # "None"}
    IN  IF ends = {} THEN [kind |-> "None"]
        ELSE IF res(First(ends)).kind = "Panic" THEN [kind |-> "Panic"]
        ELSE [kind |-> "Ok",
              bt |-> [brp |-> First(ends), prop_seg |-> 0,
                      phase_seg1 |-> res(First(ends)).seg1,
                      phase_seg2 |-> res(First(ends)).seg2, sjw |-> 1]]

\* calculate_bit_timing(clk, bitrate): the loop `for tolerance in
\* tolerances` ends at the first tolerance whose prescaler loop ends;
\* Ok(BitTiming), Err(InvalidBitrate(bitrate)) or a panic (only in a build
\* with overflow checks)
calculate_bit_timing(clk, bitrate, checked) ==
    LET res(t) == brp_search(clk, bitrate, tolerances[t], checked)
        ends == {t \in 1..Len(tolerances) : res(t).kind # "None"}
    IN  IF ends = {} THEN [kind |-> "InvalidBitrate", bitrate |-> bitrate]
        ELSE res(First(ends))

\* effective_bitrate
effective_bitrate(clk, bt) ==
    (clk \div bt.brp) \div (bt.prop_seg + bt.phase_seg1 + bt.phase_seg2 + 1)

\* ------------------------------------------------------------ Interface

VARIABLES
    features,         \* Interface.features: the device's feature bitmask
    channel_count,    \* Interface.channel_count (zero indexed)
    overflow_checks,  \* whether the build panics on integer overflow
    running,          \* Interface.running, shared with the receive threads
    channels,         \* Interface.channels: index -> Channel
    pc,               \* where the caller's thread is inside start() or stop()
    idx,              \* the channel index of the loop in start() or stop()
    op,               \* the API call in progress or last made, with its arguments
    ret,              \* what that call returned (Pending while it runs)
    effects,          \* what that call has done so far, in program order
    tasks,            \* the receive threads, in spawn order
    can_rx,           \* the inbound channel dev.can_rx_recv: frames not yet taken
    produced,         \* every wire frame the transport has put into can_rx
    delivered,        \* callback invocations (frame number, thread), in the
                      \* order they began
    transfers,        \* whether the device has been told to transfer
    connected,        \* whether the sending side of can_rx still exists
    call,             \* the function last called on its own: [fn, arg, src]
    out               \* what it returned

vars == <<features, channel_count, overflow_checks, running, channels, pc, idx,
          op, ret, effects, tasks, can_rx, produced, delivered, transfers,
          connected, call, out>>

\* the device's CAN clock, bt_consts.fclk_can
can_clock == 24000000

\* feature bitmasks a device reports: every feature, listen-only alone, none
AllFeatures ==
    GS_CAN_FEATURE_LISTEN_ONLY + GS_CAN_FEATURE_LOOP_BACK + GS_CAN_FEATURE_FD

\* the devices the setters are followed on, as get_device_config reports
\* them: single-channel devices with every feature and with listen-only
\* alone, and a device with MaxIcount + 1 channels and no feature
Devices ==
    {[feature |-> AllFeatures, icount |-> 0],
     [feature |-> GS_CAN_FEATURE_LISTEN_ONLY, icount |-> 0],
     [feature |-> 0, icount |-> MaxIcount]}

\* the devices start() and stop() are followed on over any Channel values:
\* each of the bitmasks, with one channel and with MaxIcount + 1 channels
PubDevices ==
    {[feature |-> f, icount |-> n] :
        f \in {AllFeatures, GS_CAN_FEATURE_LISTEN_ONLY, 0}, n \in {0, MaxIcount}}

\* bitrates the caller asks for: one with a timing at brp 2, one with no
\* timing, one whose search subtracts below zero
Bitrates == {500000, 100, 6000000}

\* custom timings the caller passes to set_bit_timing
Timings == {[brp |-> 2, prop_seg |-> 0, phase_seg1 |-> 13, phase_seg2 |-> 2, sjw |-> 1]}

\* channel indexes the caller passes: the valid ones and the first past the
\* end of the largest device
ChannelArgs == 0..(MaxIcount + 1)

\* times since start(), in ticks, that a receive thread reads for a timestamp
Durations == {0, 1}

\* calculate_bit_timing(can_clock, b) for the bitrates the caller asks for,
\* in a build with and without overflow checks
TimingOf ==
    [b \in Bitrates, oc \in BOOLEAN |-> calculate_bit_timing(can_clock, b, oc)]

Payload(n) == [i \in 1..n |-> i]

\* frames the caller sends
TxFrames ==
    {[can_id |-> [hi |-> 0, lo |-> 291], can_dlc |-> 8, channel |-> 0,
      data |-> Payload(8), ext |-> FALSE, fd |-> FALSE, brs |-> FALSE,
      esi |-> FALSE, loopback |-> FALSE, err |-> FALSE, rtr |-> FALSE,
      timestamp |-> None],
     [can_id |-> [hi |-> 0, lo |-> 74565], can_dlc |-> 9, channel |-> 1,
      data |-> Payload(12), ext |-> TRUE, fd |-> TRUE, brs |-> FALSE,
      esi |-> FALSE, loopback |-> FALSE, err |-> FALSE, rtr |-> TRUE,
      timestamp |-> None]}

\* wire frames the transport receives: one from the bus, one echo
RxHostFrames ==
    {[echo_id |-> GSUSB_RX_ECHO_ID, flags |-> 0, reserved |-> 0,
      can_id |-> [hi |-> 0, lo |-> 291], can_dlc |-> 8, channel |-> 0,
      data |-> [i \in 1..HOST_DATA_LEN |-> IF i <= 8 THEN i ELSE 0]],
     [echo_id |-> TX_ECHO_ID, flags |-> GS_CAN_FLAG_FD, reserved |-> 0,
      can_id |-> [hi |-> 4, lo |-> 74565], can_dlc |-> 9, channel |-> 1,
      data |-> [i \in 1..HOST_DATA_LEN |-> IF i <= 12 THEN i ELSE 0]]}

\* Result<(), Error>
Ok == [kind |-> "Ok", feature |-> "", bitrate |-> 0]
Pending == [kind |-> "Pending", feature |-> "", bitrate |-> 0]
Panicked == [kind |-> "Panic", feature |-> "", bitrate |-> 0]
ErrRunning == [kind |-> "Running", feature |-> "", bitrate |-> 0]
ErrNotRunning == [kind |-> "NotRunning", feature |-> "", bitrate |-> 0]
ErrInvalidChannel == [kind |-> "InvalidChannel", feature |-> "", bitrate |-> 0]
ErrInvalidBitrate(b) == [kind |-> "InvalidBitrate", feature |-> "", bitrate |-> b]
ErrUnsupportedFeature(name) == [kind |-> "UnsupportedFeature", feature |-> name, bitrate |-> 0]

\* the Channel Interface::new pushes for every channel
NewChannel ==
    [bitrate |-> 0, enabled |-> TRUE, loopback |-> FALSE, monitor |-> FALSE,
     fd |-> FALSE, data_bitrate |-> 0]

\* Interface::supports_fd
supports_fd == BitAnd(features, GS_CAN_FEATURE_FD) > 0

\* what a call does, as entries of effects
SetMode(i, mode, flags) == [req |-> "set_mode", channel |-> i, mode |-> mode, flags |-> flags]
SetBitTiming(i, bt) == [req |-> "set_bit_timing", channel |-> i, bt |-> bt]
SetDataBitTiming(i, bt) == [req |-> "set_data_bit_timing", channel |-> i, bt |-> bt]
DevSend(hf) == [req |-> "send", hf |-> hf]
StartTransfers == [req |-> "start_transfers"]
StopTransfers == [req |-> "stop_transfers"]
WriteRunning(b) == [req |-> "running", value |-> b]
Spawn(cb) == [req |-> "spawn", cb |-> cb]

\* no function has been called on its own
NoCall == [fn |-> "", arg |-> 0, src |-> <<>>]

\* the state Interface::new leaves besides the channels, on a device of D
InitOn(D) ==
    /\ \E d \in D : features = d.feature /\ channel_count = d.icount
    /\ overflow_checks \in BOOLEAN
    /\ running = FALSE
    /\ pc = "idle"
    /\ idx = 0
    /\ op = [name |-> "new", channel |-> 0, val |-> 0]
    /\ ret = Ok
    /\ effects = <<>>
    /\ tasks = <<>>
    /\ can_rx = <<>>
    /\ produced = <<>>
    /\ delivered = <<>>
    /\ transfers = FALSE
    /\ connected = TRUE
    /\ call = NoCall
    /\ out = 0

\* Interface::new
Init ==
    /\ InitOn(Devices)
    /\ channels = [i \in 0..channel_count |-> NewChannel]

rx == <<tasks, can_rx, produced, delivered, connected>>
caller == <<pc, idx, op, ret, effects, running, channels, transfers>>
device == <<features, channel_count, overflow_checks>>
pure == <<call, out>>

\* a call that runs to its return in one step of the caller's thread
Call(name, channel, val, result, done) ==
    /\ pc = "idle"
    /\ op' = [name |-> name, channel |-> channel, val |-> val]
    /\ ret' = result
    /\ effects' = done
    /\ pc' = IF result = Panicked THEN "panicked" ELSE "idle"
    /\ UNCHANGED <<idx, running, transfers, rx, device, pure>>

\* A set_bitrate that looks at the channel index only after the timing search:
\* the variant of set_bitrate that C3 has to tell from it.
set_bitrate_bounds_last(channel, bitrate) ==
    LET bt == TimingOf[bitrate, overflow_checks]
    IN  IF bt.kind = "Panic"
        THEN Call("set_bitrate", channel, bitrate, Panicked, <<>>)
             /\ UNCHANGED channels
        ELSE IF bt.kind = "InvalidBitrate"
        THEN Call("set_bitrate", channel, bitrate, ErrInvalidBitrate(bt.bitrate), <<>>)
             /\ UNCHANGED channels
        ELSE IF channel > channel_count
        THEN Call("set_bitrate", channel, bitrate, ErrInvalidChannel, <<>>)
             /\ UNCHANGED channels
        ELSE Call("set_bitrate", channel, bitrate, Ok, <<SetBitTiming(channel, bt.bt)>>)
             /\ channels' = [channels EXCEPT ![channel].bitrate = bitrate]

\* Interface::set_bitrate
set_bitrate(channel, bitrate) ==
    LET bt == TimingOf[bitrate, overflow_checks]
    IN  IF channel > channel_count
        THEN Call("set_bitrate", channel, bitrate, ErrInvalidChannel, <<>>)
             /\ UNCHANGED channels
        ELSE IF bt.kind = "Panic"
        THEN Call("set_bitrate", channel, bitrate, Panicked, <<>>)
             /\ UNCHANGED channels
        ELSE IF bt.kind = "InvalidBitrate"
        THEN Call("set_bitrate", channel, bitrate, ErrInvalidBitrate(bt.bitrate), <<>>)
             /\ UNCHANGED channels
        ELSE Call("set_bitrate", channel, bitrate, Ok, <<SetBitTiming(channel, bt.bt)>>)
             /\ channels' = [channels EXCEPT ![channel].bitrate = bitrate]

\* Interface::set_data_bitrate
set_data_bitrate(channel, bitrate) ==
    LET bt == TimingOf[bitrate, overflow_checks]
    IN  IF ~supports_fd
        THEN Call("set_data_bitrate", channel, bitrate, ErrUnsupportedFeature("FD"), <<>>)
             /\ UNCHANGED channels
        ELSE IF channel > channel_count
        THEN Call("set_data_bitrate", channel, bitrate, ErrInvalidChannel, <<>>)
             /\ UNCHANGED channels
        ELSE IF bt.kind = "Panic"
        THEN Call("set_data_bitrate", channel, bitrate, Panicked, <<>>)
             /\ UNCHANGED channels
        ELSE IF bt.kind = "InvalidBitrate"
        THEN Call("set_data_bitrate", channel, bitrate, ErrInvalidBitrate(bt.bitrate), <<>>)
             /\ UNCHANGED channels
        ELSE Call("set_data_bitrate", channel, bitrate, Ok,
                  <<SetDataBitTiming(channel, bt.bt)>>)
             /\ channels' = [channels EXCEPT ![channel].data_bitrate = bitrate]

\* Interface::set_bit_timing: the timing goes to the device as given
set_bit_timing(channel, bt) ==
    /\ Call("set_bit_timing", channel, bt, Ok, <<SetBitTiming(channel, bt)>>)
    /\ UNCHANGED channels

\* A set_monitor that tests the run flag before the feature bit: the variant
\* of set_monitor that C5 has to tell from it.
set_monitor_running_first(channel, enabled) ==
    IF running
    THEN Call("set_monitor", channel, enabled, ErrRunning, <<>>)
         /\ UNCHANGED channels
    ELSE IF BitAnd(features, GS_CAN_FEATURE_LISTEN_ONLY) = 0
    THEN Call("set_monitor", channel, enabled, ErrUnsupportedFeature("Monitor"), <<>>)
         /\ UNCHANGED channels
    ELSE IF channel > channel_count
    THEN Call("set_monitor", channel, enabled, ErrInvalidChannel, <<>>)
         /\ UNCHANGED channels
    ELSE Call("set_monitor", channel, enabled, Ok, <<>>)
         /\ channels' = [channels EXCEPT ![channel].monitor = enabled]

\* Interface::set_monitor
set_monitor(channel, enabled) ==
    IF BitAnd(features, GS_CAN_FEATURE_LISTEN_ONLY) = 0
    THEN Call("set_monitor", channel, enabled, ErrUnsupportedFeature("Monitor"), <<>>)
         /\ UNCHANGED channels
    ELSE IF channel > channel_count
    THEN Call("set_monitor", channel, enabled, ErrInvalidChannel, <<>>)
         /\ UNCHANGED channels
    ELSE IF running
    THEN Call("set_monitor", channel, enabled, ErrRunning, <<>>)
         /\ UNCHANGED channels
    ELSE Call("set_monitor", channel, enabled, Ok, <<>>)
         /\ channels' = [channels EXCEPT ![channel].monitor = enabled]

\* Interface::set_enabled
set_enabled(channel, enabled) ==
    IF channel > channel_count
    THEN Call("set_enabled", channel, enabled, ErrInvalidChannel, <<>>)
         /\ UNCHANGED channels
    ELSE IF running
    THEN Call("set_enabled", channel, enabled, ErrRunning, <<>>)
         /\ UNCHANGED channels
    ELSE Call("set_enabled", channel, enabled, Ok, <<>>)
         /\ channels' = [channels EXCEPT ![channel].enabled = enabled]

\* Interface::set_loopback
set_loopback(channel, enabled) ==
    IF BitAnd(features, GS_CAN_FEATURE_LOOP_BACK) = 0
    THEN Call("set_loopback", channel, enabled, ErrUnsupportedFeature("Loopback"), <<>>)
         /\ UNCHANGED channels
    ELSE IF channel > channel_count
    THEN Call("set_loopback", channel, enabled, ErrInvalidChannel, <<>>)
         /\ UNCHANGED channels
    ELSE IF running
    THEN Call("set_loopback", channel, enabled, ErrRunning, <<>>)
         /\ UNCHANGED channels
    ELSE Call("set_loopback", channel, enabled, Ok, <<>>)
         /\ channels' = [channels EXCEPT ![channel].loopback = enabled]

\* a set_fd that does not ask the device for CAN FD
set_fd_unchecked(channel, enabled) ==
    IF channel > channel_count
    THEN Call("set_fd", channel, enabled, ErrInvalidChannel, <<>>)
         /\ UNCHANGED channels
    ELSE IF running
    THEN Call("set_fd", channel, enabled, ErrRunning, <<>>)
         /\ UNCHANGED channels
    ELSE Call("set_fd", channel, enabled, Ok, <<>>)
         /\ channels' = [channels EXCEPT ![channel].fd = enabled]

\* Interface::set_fd
set_fd(channel, enabled) ==
    IF ~supports_fd
    THEN Call("set_fd", channel, enabled, ErrUnsupportedFeature("FD"), <<>>)
         /\ UNCHANGED channels
    ELSE IF channel > channel_count
    THEN Call("set_fd", channel, enabled, ErrInvalidChannel, <<>>)
         /\ UNCHANGED channels
    ELSE IF running
    THEN Call("set_fd", channel, enabled, ErrRunning, <<>>)
         /\ UNCHANGED channels
    ELSE Call("set_fd", channel, enabled, Ok, <<>>)
         /\ channels' = [channels EXCEPT ![channel].fd = enabled]

\* A send that does not test the run flag: the variant of send that C2 has to
\* tell from it.
send_ungated(f) ==
    /\ Call("send", 0, f, Ok, <<DevSend(to_host_frame(f))>>)
    /\ UNCHANGED channels

\* Interface::send
send(f) ==
    /\ IF ~running
       THEN Call("send", 0, f, ErrNotRunning, <<>>)
       ELSE Call("send", 0, f, Ok, <<DevSend(to_host_frame(f))>>)
    /\ UNCHANGED channels

\* the mode flag word start() builds for a channel
mode_flags(ch) ==
    BitOr(BitOr(IF ch.monitor THEN GS_CAN_MODE_LISTEN_ONLY ELSE 0,
                IF ch.loopback THEN GS_CAN_MODE_LOOP_BACK ELSE 0),
          IF ch.fd THEN GS_CAN_MODE_FD ELSE 0)

\* the first feature check of start()'s loop body that fails for a channel
\* ("" when none does)
unsupported(ch) ==
    IF ch.monitor /\ BitAnd(features, GS_CAN_FEATURE_LISTEN_ONLY) = 0 THEN "Monitor"
    ELSE IF ch.loopback /\ BitAnd(features, GS_CAN_FEATURE_LOOP_BACK) = 0 THEN "Loopback"
    ELSE IF ch.fd /\ ~supports_fd THEN "FD"
    ELSE ""

\* A start that writes the run flag on entry, before the channel loop
StartCall_sets_flag ==
    /\ pc = "idle"
    /\ Len(tasks) < MaxTasks
    /\ pc' = "start_loop"
    /\ idx' = 0
    /\ op' = [name |-> "start", channel |-> 0, val |-> 0]
    /\ ret' = Pending
    /\ effects' = <<>>
    /\ running' = TRUE
    /\ UNCHANGED <<channels, transfers, rx, device, pure>>

\* Interface::start is entered: the caller's thread is at the channel loop
StartCall ==
    /\ pc = "idle"
    /\ Len(tasks) < MaxTasks
    /\ pc' = "start_loop"
    /\ idx' = 0
    /\ op' = [name |-> "start", channel |-> 0, val |-> 0]
    /\ ret' = Pending
    /\ effects' = <<>>
    /\ UNCHANGED <<running, channels, transfers, rx, device, pure>>

\* A loop pass that sends set_mode for a disabled channel too: the variant of
\* StartLoop that C7 has to tell from it.
StartLoop_every_channel ==
    /\ pc = "start_loop"
    /\ LET ch == channels[idx]
           bad == unsupported(ch)
       IN  IF bad # ""
           THEN /\ ret' = ErrUnsupportedFeature(bad)
                /\ pc' = "idle"
                /\ UNCHANGED <<idx, effects>>
           ELSE /\ effects' = Append(effects, SetMode(idx, "Start", mode_flags(ch)))
                /\ idx' = idx + 1
                /\ pc' = IF idx = channel_count THEN "start_run" ELSE "start_loop"
                /\ UNCHANGED ret
    /\ UNCHANGED <<op, running, channels, transfers, rx, device, pure>>

\* one pass of start()'s loop over the channels: the feature checks, then
\* set_mode for an enabled channel
StartLoop ==
    /\ pc = "start_loop"
    /\ LET ch == channels[idx]
           bad == unsupported(ch)
       IN  IF bad # ""
           THEN /\ ret' = ErrUnsupportedFeature(bad)
                /\ pc' = "idle"
                /\ UNCHANGED <<idx, effects>>
           ELSE /\ effects' = IF ch.enabled
                              THEN Append(effects, SetMode(idx, "Start", mode_flags(ch)))
                              ELSE effects
                /\ idx' = idx + 1
                /\ pc' = IF idx = channel_count THEN "start_run" ELSE "start_loop"
                /\ UNCHANGED ret
    /\ UNCHANGED <<op, running, channels, transfers, rx, device, pure>>

\* start(): *self.running.write().unwrap() = true
StartRun ==
    /\ pc = "start_run"
    /\ running' = TRUE
    /\ effects' = Append(effects, WriteRunning(TRUE))
    /\ pc' = "start_spawn"
    /\ tasks' = [i \in 1..Len(tasks) |-> [tasks[i] EXCEPT !.late = 0]]
    /\ UNCHANGED <<idx, op, ret, channels, transfers, can_rx, produced,
                   delivered, connected, device, pure>>

\* a receive thread as thread::spawn leaves it: about to test the run flag.
\* got holds the wire frame recv() has returned until the callback is called,
\* arg the Frame the callback has been called with until it returns; alone
\* records whether every earlier receive thread had ended when this one was
\* spawned, late how many times the thread has called the callback with the
\* run flag false since the flag was last written true (kept until the
\* thread ends).
NewTask ==
    [pc |-> "check", got |-> <<>>, arg |-> <<>>, late |-> 0,
     alone |-> \A i \in 1..Len(tasks) : tasks[i].pc = "done"]

\* start(): thread::spawn of the rx callback thread
StartSpawn ==
    /\ pc = "start_spawn"
    /\ tasks' = Append(tasks, NewTask)
    /\ effects' = Append(effects, Spawn(Len(tasks) + 1))
    /\ pc' = "start_xfer"
    /\ UNCHANGED <<idx, op, ret, running, channels, transfers, can_rx, produced,
                   delivered, connected, device, pure>>

\* start(): self.dev.start_transfers() and the return of Ok
StartXfer ==
    /\ pc = "start_xfer"
    /\ transfers' = TRUE
    /\ effects' = Append(effects, StartTransfers)
    /\ ret' = Ok
    /\ pc' = "idle"
    /\ UNCHANGED <<idx, op, running, channels, rx, device, pure>>

\* Interface::stop is entered
StopCall ==
    /\ pc = "idle"
    /\ pc' = "stop_loop"
    /\ idx' = 0
    /\ op' = [name |-> "stop", channel |-> 0, val |-> 0]
    /\ ret' = Pending
    /\ effects' = <<>>
    /\ UNCHANGED <<running, channels, transfers, rx, device, pure>>

\* one pass of stop()'s loop over the channels
StopLoop ==
    /\ pc = "stop_loop"
    /\ effects' = IF channels[idx].enabled
                  THEN Append(effects, SetMode(idx, "Reset", 0))
                  ELSE effects
    /\ idx' = idx + 1
    /\ pc' = IF idx = channel_count THEN "stop_xfer" ELSE "stop_loop"
    /\ UNCHANGED <<op, ret, running, channels, transfers, rx, device, pure>>

\* stop(): self.dev.stop_transfers()
StopXfer ==
    /\ pc = "stop_xfer"
    /\ transfers' = FALSE
    /\ effects' = Append(effects, StopTransfers)
    /\ pc' = "stop_run"
    /\ UNCHANGED <<idx, op, ret, running, channels, rx, device, pure>>

\* A stop that returns Ok without writing the run flag: the variant of
\* StopRun that C8 has to tell from it.
StopRun_keeps_flag ==
    /\ pc = "stop_run"
    /\ ret' = Ok
    /\ pc' = "idle"
    /\ UNCHANGED <<idx, op, effects, running, channels, transfers, rx, device, pure>>

\* stop(): *self.running.write().unwrap() = false and the return of Ok
StopRun ==
    /\ pc = "stop_run"
    /\ running' = FALSE
    /\ effects' = Append(effects, WriteRunning(FALSE))
    /\ ret' = Ok
    /\ pc' = "idle"
    /\ UNCHANGED <<idx, op, channels, transfers, rx, device, pure>>


\* the receive thread's `while *running.read().unwrap()`
TaskCheck(i) ==
    /\ tasks[i].pc = "check"
    /\ tasks' = [tasks EXCEPT ![i].pc = IF running THEN "recv" ELSE "done",
                              ![i].late = IF running THEN @ ELSE 0]
    /\ UNCHANGED <<caller, can_rx, produced, delivered, connected, device, pure>>

\* A recv() that returns the newest frame of the inbound channel: the variant
\* of TaskRecv that C10 has to tell from it.
TaskRecv_newest(i) ==
    /\ tasks[i].pc = "recv"
    /\ can_rx # <<>>
    /\ tasks' = [tasks EXCEPT ![i].pc = "decode", ![i].got = <<can_rx[Len(can_rx)]>>]
    /\ can_rx' = SubSeq(can_rx, 1, Len(can_rx) - 1)
    /\ UNCHANGED <<caller, produced, delivered, connected, device, pure>>

\* can_rx.recv() returns Ok(hf): the thread holds the oldest frame of the
\* inbound channel
TaskRecv(i) ==
    /\ tasks[i].pc = "recv"
    /\ can_rx # <<>>
    /\ tasks' = [tasks EXCEPT ![i].pc = "decode", ![i].got = <<Head(can_rx)>>]
    /\ can_rx' = Tail(can_rx)
    /\ UNCHANGED <<caller, produced, delivered, connected, device, pure>>

\* the frame is decoded, stamped with the time since start() and handed to
\* the callback of this thread, which starts to run
TaskCallback(i) ==
    /\ tasks[i].pc = "decode"
    /\ \E elapsed \in Durations :
          LET m == tasks[i].got[1]
              f == [from_host_frame(m.hf) EXCEPT !.timestamp = Some(elapsed)]
          IN  tasks' = [tasks EXCEPT ![i].pc = "callback", ![i].got = <<>>,
                                     ![i].arg = <<[n |-> m.n, f |-> f]>>,
                                     ![i].late = IF running THEN @ ELSE @ + 1]
    /\ delivered' = Append(delivered, [n |-> tasks[i].got[1].n, cb |-> i])
    /\ UNCHANGED <<caller, can_rx, produced, connected, device, pure>>

\* a receive thread that goes from the callback straight to the next recv
TaskCallbackReturn_skips_check(i) ==
    /\ tasks[i].pc = "callback"
    /\ tasks' = [tasks EXCEPT ![i].pc = "recv", ![i].arg = <<>>]
    /\ UNCHANGED <<caller, can_rx, produced, delivered, connected, device, pure>>

\* the callback returns and the thread is back at the loop's test
TaskCallbackReturn(i) ==
    /\ tasks[i].pc = "callback"
    /\ tasks' = [tasks EXCEPT ![i].pc = "check", ![i].arg = <<>>]
    /\ UNCHANGED <<caller, can_rx, produced, delivered, connected, device, pure>>

\* a receive thread that goes back to the loop's test on Err(RecvError)
TaskRecvError_continue(i) ==
    /\ tasks[i].pc = "recv"
    /\ can_rx = <<>>
    /\ ~connected
    /\ tasks' = [tasks EXCEPT ![i].pc = "check"]
    /\ UNCHANGED <<caller, can_rx, produced, delivered, connected, device, pure>>

\* can_rx.recv() returns Err(RecvError): the channel is empty and its
\* senders are gone; the thread breaks out of the loop
TaskRecvError(i) ==
    /\ tasks[i].pc = "recv"
    /\ can_rx = <<>>
    /\ ~connected
    /\ tasks' = [tasks EXCEPT ![i].pc = "done"]
    /\ UNCHANGED <<caller, can_rx, produced, delivered, connected, device, pure>>

\* the device transport puts a received wire frame into the inbound channel
DeviceRx(hf) ==
    /\ transfers
    /\ connected
    /\ Len(produced) < MaxFrames
    /\ produced' = Append(produced, hf)
    /\ can_rx' = Append(can_rx, [n |-> Len(produced) + 1, hf |-> hf])
    /\ UNCHANGED <<caller, tasks, delivered, connected, device, pure>>

\* the transport is torn down: the sending side of the inbound channel is
\* dropped and the caller makes no further call
Disconnect ==
    /\ pc = "idle"
    /\ connected
    /\ connected' = FALSE
    /\ pc' = "closed"
    /\ UNCHANGED <<idx, op, ret, effects, running, channels, transfers, tasks,
                   can_rx, produced, delivered, device, pure>>

Setter ==
    \/ \E c \in ChannelArgs, b \in Bitrates : set_bitrate(c, b)
    \/ \E c \in ChannelArgs, b \in Bitrates : set_data_bitrate(c, b)
    \/ \E c \in ChannelArgs, bt \in Timings : set_bit_timing(c, bt)
    \/ \E c \in ChannelArgs, e \in BOOLEAN : set_monitor(c, e)
    \/ \E c \in ChannelArgs, e \in BOOLEAN : set_enabled(c, e)
    \/ \E c \in ChannelArgs, e \in BOOLEAN : set_loopback(c, e)
    \/ \E c \in ChannelArgs, e \in BOOLEAN : set_fd(c, e)

StartStop ==
    \/ StartCall
    \/ StartLoop
    \/ StartRun
    \/ StartSpawn
    \/ StartXfer
    \/ StopCall
    \/ StopLoop
    \/ StopXfer
    \/ StopRun

Lifecycle ==
    \/ StartStop
    \/ \E f \in TxFrames : send(f)

Receive ==
    \/ \E i \in 1..Len(tasks) : TaskCheck(i)
    \/ \E i \in 1..Len(tasks) : TaskRecv(i)
    \/ \E i \in 1..Len(tasks) : TaskCallback(i)
    \/ \E i \in 1..Len(tasks) : TaskCallbackReturn(i)
    \/ \E i \in 1..Len(tasks) : TaskRecvError(i)
    \/ \E hf \in RxHostFrames : DeviceRx(hf)
    \/ Disconnect

Next == Setter \/ Lifecycle \/ Receive

Spec == Init /\ [][Next]_vars

\* The caller's thread alone. No action of Receive writes a variable that an
\* action of Setter or Lifecycle reads, so what the caller sees in a
\* behaviour of Spec it sees in a behaviour of SpecApi.
NextApi == Setter \/ Lifecycle

SpecApi == Init /\ [][NextApi]_vars

\* start(), stop() and the receive path, on an Interface whose channels are
\* as Interface::new left them.
NextRx == StartStop \/ Receive

\* The receive threads read neither the channels nor a timing, and start()
\* and stop() treat every channel alike: the receive path is followed on the
\* single-channel device with every feature, in the build without overflow
\* checks.
InitRx ==
    /\ Init
    /\ features = AllFeatures
    /\ ~overflow_checks

SpecRx == InitRx /\ [][NextRx]_vars

\* how many calls of start have returned Ok: each has spawned one thread, and
\* the call at its last step has spawned its thread and has not returned
StartsReturned == Len(tasks) - (IF pc = "start_xfer" THEN 1 ELSE 0)

\* start is called on an Interface that is stopped
RestartCall == ~running /\ StartCall

\* a wire frame enters the inbound channel after a second start has returned
LateRx(hf) == StartsReturned >= 2 /\ DeviceRx(hf)

\* start(cb1), stop, start(cb2), ...: the caller starts the Interface only
\* when it is stopped, and the bus is silent until the second start has
\* returned.
NextRestart ==
    \/ RestartCall
    \/ StartLoop
    \/ StartRun
    \/ StartSpawn
    \/ StartXfer
    \/ StopCall
    \/ StopLoop
    \/ StopXfer
    \/ StopRun
    \/ \E i \in 1..Len(tasks) : TaskCheck(i)
    \/ \E i \in 1..Len(tasks) : TaskRecv(i)
    \/ \E i \in 1..Len(tasks) : TaskCallback(i)
    \/ \E i \in 1..Len(tasks) : TaskCallbackReturn(i)
    \/ \E i \in 1..Len(tasks) : TaskRecvError(i)
    \/ \E hf \in RxHostFrames : LateRx(hf)
    \/ Disconnect

SpecRestart == InitRx /\ [][NextRestart]_vars

\* Channel's fields are pub: start() checks every mode flag again because a
\* Channel may hold a flag that no setter accepted. InitPub is an Interface
\* whose channels hold any combination of the flags.
InitPub ==
    /\ InitOn(PubDevices)
    /\ channels \in [0..channel_count ->
                       [bitrate : {0}, enabled : BOOLEAN, loopback : BOOLEAN,
                        monitor : BOOLEAN, fd : BOOLEAN, data_bitrate : {0}]]

SpecPub == InitPub /\ [][Lifecycle]_vars

\* the devices the whole API is followed on from a Channel that holds a flag
\* no setter accepted: one that has listen-only alone, one without features
OneFlagDevices ==
    {[feature |-> GS_CAN_FEATURE_LISTEN_ONLY, icount |-> 0],
     [feature |-> 0, icount |-> MaxIcount]}

\* the channels of new() for n + 1 channels, as they are or with one mode
\* flag of one channel set
OneFlagChannels(n) ==
    LET plain == [i \in 0..n |-> NewChannel]
    IN  {plain}
        \cup {[plain EXCEPT ![i].monitor = TRUE] : i \in 0..n}
        \cup {[plain EXCEPT ![i].loopback = TRUE] : i \in 0..n}
        \cup {[plain EXCEPT ![i].fd = TRUE] : i \in 0..n}

\* an Interface of which at most one Channel flag was written directly
InitOneFlag ==
    /\ InitOn(OneFlagDevices)
    /\ channels \in OneFlagChannels(channel_count)

SpecOneFlag == InitOneFlag /\ [][NextApi]_vars

\* ---------------------------------------------------------------------
\* The codec, called on its own
\* ---------------------------------------------------------------------

\* payloads a caller puts into a Frame with the DLC it gives them: the
\* lengths of the DLC table, one shorter than its DLC says, one longer than
\* the wire buffer
CodecPayloads ==
    {[can_dlc |-> 0, data |-> <<>>],
     [can_dlc |-> 8, data |-> Payload(8)],
     [can_dlc |-> 8, data |-> Payload(3)],
     [can_dlc |-> 9, data |-> Payload(12)],
     [can_dlc |-> 15, data |-> Payload(HOST_DATA_LEN)],
     [can_dlc |-> 15, data |-> Payload(HOST_DATA_LEN + 1)]}

\* arbitration ids of those frames: 0x123, 0x1FFF_FFFF and 0x8000_0123, a
\* u32 above 29 bits
CodecIds == {[hi |-> 0, lo |-> 291], [hi |-> 0, lo |-> 536870911], [hi |-> 4, lo |-> 291]}

\* the frames to_host_frame is called with
CodecFrames ==
    {[can_id |-> id, can_dlc |-> p.can_dlc, channel |-> ch, data |-> p.data,
      ext |-> ext, fd |-> fd, brs |-> FALSE, esi |-> FALSE, loopback |-> FALSE,
      err |-> err, rtr |-> rtr, timestamp |-> ts] :
        id \in CodecIds, p \in CodecPayloads, ch \in {0, 1},
        ext \in BOOLEAN, fd \in BOOLEAN, err \in BOOLEAN, rtr \in BOOLEAN,
        ts \in {None, Some(1)}}

\* echo ids of wire frames: 0xFFFF_FFFF, 0xFFFF_FFFE, 0x1FFF_FFFF,
\* 0xE000_0000, 1 and 0
EchoIds ==
    {[hi |-> 7, lo |-> 536870911], [hi |-> 7, lo |-> 536870910],
     [hi |-> 0, lo |-> 536870911], [hi |-> 7, lo |-> 0],
     [hi |-> 0, lo |-> 1], [hi |-> 0, lo |-> 0]}

\* the wire frames from_host_frame is called with
WireFrames ==
    {[echo_id |-> e, flags |-> fl, reserved |-> 0, can_id |-> id,
      can_dlc |-> dlc, channel |-> ch,
      data |-> [i \in 1..HOST_DATA_LEN |-> IF i <= 8 THEN i ELSE 0]] :
        e \in EchoIds, fl \in {0, GS_CAN_FLAG_FD, GS_CAN_FLAG_BRS + GS_CAN_FLAG_ESI},
        id \in CodecIds \cup {[hi |-> 7, lo |-> 536870911]},
        dlc \in {0, 8, 15}, ch \in {0, 1}}

\* every value of Frame.can_dlc, a u8
Dlcs == 0..255

\* a call of f.to_host_frame()
CallToHostFrame(f) ==
    /\ call = NoCall
    /\ call' = [fn |-> "to_host_frame", arg |-> f, src |-> <<>>]
    /\ out' = to_host_frame(f)
    /\ UNCHANGED <<caller, rx, device>>

\* a call of Frame::from_host_frame(hf) for a wire frame of the transport
CallFromHostFrame(hf) ==
    /\ call = NoCall
    /\ call' = [fn |-> "from_host_frame", arg |-> hf, src |-> <<>>]
    /\ out' = from_host_frame(hf)
    /\ UNCHANGED <<caller, rx, device>>

\* a call of Frame::from_host_frame on the wire frame to_host_frame has just
\* returned; src keeps the Frame that was encoded
CallFromEncoded ==
    /\ call.fn = "to_host_frame"
    /\ call' = [fn |-> "from_host_frame", arg |-> out, src |-> <<call.arg>>]
    /\ out' = from_host_frame(out)
    /\ UNCHANGED <<caller, rx, device>>

\* a call of f.data_len() for a frame with the given DLC
CallDataLen(dlc) ==
    /\ call = NoCall
    /\ call' = [fn |-> "data_len", arg |-> dlc, src |-> <<>>]
    /\ out' = data_len([can_dlc |-> dlc])
    /\ UNCHANGED <<caller, rx, device>>

\* a call of f.data_len() on the Frame from_host_frame has just returned
CallDataLenDecoded ==
    /\ call.fn = "from_host_frame"
    /\ call' = [fn |-> "data_len", arg |-> out.can_dlc, src |-> <<out>>]
    /\ out' = data_len(out)
    /\ UNCHANGED <<caller, rx, device>>

NextCodec ==
    \/ \E f \in CodecFrames : CallToHostFrame(f)
    \/ \E hf \in WireFrames : CallFromHostFrame(hf)
    \/ CallFromEncoded
    \/ \E dlc \in Dlcs : CallDataLen(dlc)
    \/ CallDataLenDecoded

\* the codec reads nothing of the Interface: one call, and the calls made
\* on what it returned, are followed next to one Interface that makes no call
InitCodec ==
    /\ Init
    /\ features = AllFeatures
    /\ ~overflow_checks

SpecCodec == InitCodec /\ [][NextCodec]_vars

\* ---------------------------------------------------------------------
\* The bit timing calculator, called on its own
\* ---------------------------------------------------------------------

\* the bitrates of test_bit_timing
TestBitrates ==
    {4000000, 3000000, 2400000, 2000000, 1000000, 500000, 250000, 125000, 33333}

\* the bitrates calculate_bit_timing is called with: those of the test,
\* rates no prescaler reaches, rates a prescaler reaches only roughly, rates
\* of less than four quanta per bit, and zero
TimingBitrates ==
    TestBitrates \cup {0, 1, 100, 10000, 20000, 28992, 29926, 50000, 83333,
                       800000, 2390000, 6000000, 8000000, 12000000, 24000000}

\* the clocks it is called with: the clock of the test and those of other
\* devices
TimingClocks == {can_clock, 48000000, 16000000, 80000000}

\* a call of calculate_bit_timing(clk, bitrate) in the build of the Interface
CallCalculateBitTiming(clk, bitrate) ==
    /\ call = NoCall
    /\ call' = [fn |-> "calculate_bit_timing",
                arg |-> [clk |-> clk, bitrate |-> bitrate], src |-> <<>>]
    /\ out' = calculate_bit_timing(clk, bitrate, overflow_checks)
    /\ UNCHANGED <<caller, rx, device>>

\* a call of effective_bitrate(clk, bt) on the timing calculate_bit_timing
\* has just returned for clk, as test_bit_timing does; src keeps the
\* arguments the timing was computed for
CallEffectiveBitrate ==
    /\ call.fn = "calculate_bit_timing"
    /\ out.kind = "Ok"
    /\ call' = [fn |-> "effective_bitrate",
                arg |-> [clk |-> call.arg.clk, bt |-> out.bt],
                src |-> <<call.arg>>]
    /\ out' = effective_bitrate(call.arg.clk, out.bt)
    /\ UNCHANGED <<caller, rx, device>>

NextTiming ==
    \/ \E clk \in TimingClocks, bitrate \in TimingBitrates :
            CallCalculateBitTiming(clk, bitrate)
    \/ CallEffectiveBitrate

\* the calculator reads nothing of the Interface but the build it is
\* compiled in
InitTiming ==
    /\ Init
    /\ features = AllFeatures

SpecTiming == InitTiming /\ [][NextTiming]_vars

\* ---------------------------------------------------------------------
\* Properties
\* ---------------------------------------------------------------------

\* the per-channel configuration setters, by the name op records
SetterNames ==
    {"set_bitrate", "set_data_bitrate", "set_bit_timing", "set_monitor",
     "set_enabled", "set_loopback", "set_fd"}

\* the feature bit a setter's request needs (0: none)
required_feature(name) ==
    IF name = "set_monitor" THEN GS_CAN_FEATURE_LISTEN_ONLY
    ELSE IF name = "set_loopback" THEN GS_CAN_FEATURE_LOOP_BACK
    ELSE IF name \in {"set_fd", "set_data_bitrate"} THEN GS_CAN_FEATURE_FD
    ELSE 0

\* the name UnsupportedFeature carries for that bit
feature_name(name) ==
    IF name = "set_monitor" THEN "Monitor"
    ELSE IF name = "set_loopback" THEN "Loopback"
    ELSE "FD"

\* the device has the feature the setter needs
Supported(name) ==
    required_feature(name) = 0 \/ BitAnd(features, required_feature(name)) # 0

\* the last call was the setter `op` names, with a valid channel index
ValidSetterCall == op.name \in SetterNames /\ op.channel <= channel_count

\* a step in which the caller calls a setter, which runs to its return
SetterStep == pc = "idle" /\ op'.name \in SetterNames

\* a step in which the caller calls send, which runs to its return
SendStep == pc = "idle" /\ op'.name = "send"

\* C1: while the run flag is true, every per-channel setter called with a
\* valid channel on a device that supports the feature fails with Running,
\* pushes no timing to the device and changes no Channel field. (No setter
\* writes the run flag, so `running` after the call is the flag the call saw.)
C1_SettersFailWhileRunning ==
    /\ []((ValidSetterCall /\ Supported(op.name) /\ running)
            => (ret = ErrRunning /\ effects = <<>>))
    /\ [][(SetterStep /\ running /\ op'.channel <= channel_count
                /\ Supported(op'.name))
            => UNCHANGED channels]_vars

\* C1: set_bitrate has returned Ok and changed the bitrate while running
C1_Witness ==
    /\ op.name = "set_bitrate"
    /\ running
    /\ ret = Ok
    /\ Len(effects) = 1
    /\ channels[op.channel].bitrate = op.val

\* C2: send while the run flag is false fails with NotRunning and asks the
\* device for nothing; send while it is true makes exactly one send request,
\* carrying the encoded frame; send changes neither the run flag nor a Channel.
C2_SendGatedByRunFlag ==
    /\ [](op.name = "send"
            => IF running
               THEN ret = Ok /\ effects = <<DevSend(to_host_frame(op.val))>>
               ELSE ret = ErrNotRunning /\ effects = <<>>)
    /\ [][SendStep => UNCHANGED <<running, channels>>]_vars

\* C2: a frame has been sent while running
C2_Witness ==
    /\ op.name = "send"
    /\ running
    /\ ret = Ok
    /\ effects[1].hf.can_dlc = 9

\* C3: set_bitrate with a channel index above channel_count fails with
\* InvalidChannel for every bitrate, running or not, pushes no timing and
\* changes no Channel.
C3_SetBitrateInvalidChannel ==
    /\ []((op.name = "set_bitrate" /\ op.channel > channel_count)
            => (ret = ErrInvalidChannel /\ effects = <<>>))
    /\ [][(SetterStep /\ op'.name = "set_bitrate" /\ op'.channel > channel_count)
            => UNCHANGED channels]_vars

\* C3: set_bitrate(channel_count + 1, b) has failed while running, for a
\* bitrate that has no timing
C3_Witness ==
    /\ op.name = "set_bitrate"
    /\ op.channel = channel_count + 1
    /\ op.val = 100
    /\ running
    /\ ret = ErrInvalidChannel

\* C4: every per-channel setter checks the channel bounds, then the
\* capability, then the run state: a channel above channel_count gives
\* InvalidChannel whatever the features and the run flag, and a valid channel
\* with a missing feature gives UnsupportedFeature whatever the run flag.
C4_CheckPrecedence ==
    op.name \in SetterNames
        => IF op.channel > channel_count
           THEN ret = ErrInvalidChannel
           ELSE ~Supported(op.name)
                    => ret = ErrUnsupportedFeature(feature_name(op.name))

\* C4: set_bit_timing has pushed a timing for a channel the device lacks
C4_Witness ==
    /\ op.name = "set_bit_timing"
    /\ op.channel > channel_count
    /\ ret = Ok
    /\ effects = <<SetBitTiming(op.channel, op.val)>>

\* C5: on a device without the listen-only, loopback or FD bit, set_monitor,
\* set_loopback and set_fd / set_data_bitrate with a valid channel fail with
\* UnsupportedFeature("Monitor" / "Loopback" / "FD"), running or not, and
\* leave the channels as they were.
C5_MissingFeatureRejected ==
    /\ []((ValidSetterCall /\ ~Supported(op.name))
            => (ret = ErrUnsupportedFeature(feature_name(op.name))
                /\ effects = <<>>))
    /\ [][(SetterStep /\ op'.channel <= channel_count /\ ~Supported(op'.name))
            => UNCHANGED channels]_vars

\* C5: set_monitor has been refused for the missing feature while running
C5_Witness ==
    /\ op.name = "set_monitor"
    /\ op.channel <= channel_count
    /\ BitAnd(features, GS_CAN_FEATURE_LISTEN_ONLY) = 0
    /\ running
    /\ ret = ErrUnsupportedFeature("Monitor")

flag_word(ch) ==
    (IF ch.monitor THEN 1 ELSE 0) + (IF ch.loopback THEN 2 ELSE 0)
        + (IF ch.fd THEN 256 ELSE 0)

\* the enabled channels in index order
EnabledChannels ==
    LET E == {i \in 0..channel_count : channels[i].enabled}
    IN  [k \in 1..Cardinality(E) |->
            CHOOSE i \in E : Cardinality({j \in E : j < i}) = k - 1]

\* C7: a start that returns Ok has sent a "start" mode command with the
\* channel's flag word for every enabled channel, in index order, and for no
\* disabled one, then set the run flag, then spawned the receive thread, then
\* told the device to begin transfers; the run flag is true when it returns.
C7_StartOrder ==
    (op.name = "start" /\ ret = Ok)
        => /\ running
           /\ effects =
                [k \in 1..Len(EnabledChannels) |->
                    SetMode(EnabledChannels[k], "Start",
                            flag_word(channels[EnabledChannels[k]]))]
                \o <<WriteRunning(TRUE), Spawn(Len(tasks)), StartTransfers>>

\* C7: start has returned Ok with a disabled channel and an enabled channel
\* that has a mode flag set
C7_Witness ==
    /\ op.name = "start"
    /\ ret = Ok
    /\ \E i \in 0..channel_count : ~channels[i].enabled
    /\ \E i \in 0..channel_count :
          channels[i].enabled /\ flag_word(channels[i]) # 0

\* C8: stop sends a "reset" mode command with zero flags to every enabled
\* channel and to no disabled one, then halts the transfers, then clears the
\* run flag; once it has returned the run flag is false, a setter is not
\* refused with Running, send fails with NotRunning, and stop has changed no
\* Channel.
C8_StopOrder ==
    /\ []((op.name = "stop" /\ ret = Ok)
            => /\ ~running
               /\ effects =
                    [k \in 1..Len(EnabledChannels) |->
                        SetMode(EnabledChannels[k], "Reset", 0)]
                    \o <<StopTransfers, WriteRunning(FALSE)>>)
    /\ [][(op.name = "stop" /\ ret = Ok /\ SetterStep) => ret' # ErrRunning]_vars
    /\ [][(op.name = "stop" /\ ret = Ok /\ SendStep) => ret' = ErrNotRunning]_vars
    /\ [][op'.name = "stop" => UNCHANGED channels]_vars

\* C8: stop has returned Ok on a running interface's channels, one of them
\* disabled and one enabled
C8_Witness ==
    /\ op.name = "stop"
    /\ ret = Ok
    /\ Len(tasks) > 0
    /\ \E i \in 0..channel_count : ~channels[i].enabled
    /\ \E i \in 0..channel_count : channels[i].enabled

\* the receive threads that have not ended
Alive == {i \in 1..Len(tasks) : tasks[i].pc # "done"}

\* C9: at most one receive thread is alive at any moment.
C9_SingleConsumer == Cardinality(Alive) <= 1

\* C9: two receive threads are blocked in recv() on the same channel
C9_Witness ==
    /\ Len(tasks) >= 2
    /\ tasks[1].pc = "recv"
    /\ tasks[2].pc = "recv"

\* no receive thread was spawned while an earlier one was alive
SingleTask == \A i \in 1..Len(tasks) : tasks[i].alone

\* C10: with a single receive thread the callback gets the frames in the
\* order they entered the inbound channel, each at most once, each decoded
\* and with a timestamp that is Some; no callback is called while another
\* one has not returned.
C10_InOrderDelivery ==
    /\ [](SingleTask
            => /\ \A j, k \in 1..Len(delivered) :
                    j < k => delivered[j].n < delivered[k].n
               /\ \A i \in 1..Len(tasks) :
                    tasks[i].pc = "callback"
                        => /\ tasks[i].arg[1].f.timestamp.some
                           /\ [tasks[i].arg[1].f EXCEPT !.timestamp = None]
                                = from_host_frame(produced[tasks[i].arg[1].n]))
    /\ [][(SingleTask' /\ Len(delivered') > Len(delivered))
            => \A i \in 1..Len(tasks) : tasks[i].pc # "callback"]_vars

\* C10: a single receive thread has handed two frames to the callback
C10_Witness ==
    /\ SingleTask
    /\ Len(tasks) = 1
    /\ Len(delivered) >= 2
    /\ tasks[1].pc = "callback"
    /\ tasks[1].arg[1].n = 2
    /\ tasks[1].arg[1].f.loopback

\* ---------------------------------------------------------------- codec

\* a Frame decoded from the encoding of the Frame call.src[1]
RoundTrip == call.fn = "from_host_frame" /\ call.src # <<>>

\* a Frame as the type describes it: a 29-bit id and the payload length of
\* its DLC
WellFormed(f) ==
    /\ f.can_id.hi = 0
    /\ ~data_len(f).panic
    /\ Len(f.data) = data_len(f).len

\* C11: from_host_frame(to_host_frame(f)) has the can_id of f masked to 29
\* bits, its can_dlc, its channel, its flags ext, rtr, err and fd and its
\* payload bytes, and no timestamp; stated for the frames with a 29-bit id
\* and a payload of the length of their DLC.
C11_RoundTrip ==
    (RoundTrip /\ WellFormed(call.src[1])) =>
        LET f == call.src[1]
        IN  /\ out.can_id = And32(f.can_id, CAN_ID_MASK)
            /\ out.can_dlc = f.can_dlc
            /\ out.channel = f.channel
            /\ out.ext = f.ext
            /\ out.rtr = f.rtr
            /\ out.err = f.err
            /\ out.fd = f.fd
            /\ Len(out.data) = Len(f.data)
            /\ \A i \in 1..Len(f.data) : out.data[i] = f.data[i]
            /\ out.timestamp = None

\* C11: a classic frame of 8 bytes has come back from the round trip with
\* its id, DLC, channel and flags, and with a payload of 64 bytes
C11_Witness ==
    /\ RoundTrip
    /\ WellFormed(call.src[1])
    /\ call.src[1].can_dlc = 8
    /\ call.src[1].ext /\ call.src[1].rtr /\ ~call.src[1].err /\ ~call.src[1].fd
    /\ out.ext /\ out.rtr /\ ~out.err /\ ~out.fd
    /\ out.can_id = call.src[1].can_id
    /\ out.can_dlc = 8
    /\ Len(out.data) = HOST_DATA_LEN
    /\ \A i \in 1..HOST_DATA_LEN : out.data[i] = IF i <= 8 THEN call.src[1].data[i] ELSE 0
    /\ out.timestamp = None

\* data_len() has been called on a Frame that from_host_frame returned
DecodedLen == call.fn = "data_len" /\ call.src # <<>>

\* C12: the payload of a frame decoded by from_host_frame has the length
\* that data_len() gives for its can_dlc.
C12_DecodedPayloadLength ==
    (DecodedLen /\ ~out.panic) => Len(call.src[1].data) = out.len

\* C12: a decoded frame of DLC 8 carries 64 bytes where data_len() is 8
C12_Witness ==
    /\ DecodedLen
    /\ call.arg = 8
    /\ out = [panic |-> FALSE, len |-> 8]
    /\ Len(call.src[1].data) = HOST_DATA_LEN

\* C13: data_len returns n for a DLC n of 0..8, and 12, 16, 20, 24, 32, 48
\* and 64 for the DLCs 9 to 15; for every DLC of 16..255 it returns no
\* length and panics.
C13_DlcTable ==
    call.fn = "data_len" =>
        LET table == <<12, 16, 20, 24, 32, 48, 64>>
            dlc == call.arg
        IN  /\ dlc \in 0..8 => out = [panic |-> FALSE, len |-> dlc]
            /\ dlc \in 9..15 => out = [panic |-> FALSE, len |-> table[dlc - 8]]
            /\ dlc \in 16..255 => out.panic

\* C13: data_len has panicked on the DLC 16
C13_Witness ==
    /\ call.fn = "data_len"
    /\ call.arg = 16
    /\ out.panic

\* the u32 0xFFFF_FFFF: ones in the bits 31..29 and in the bits 28..0
AllOnes(w) == w.hi = 7 /\ w.lo = 536870911

\* C14: for every wire frame, whatever its other fields, from_host_frame
\* sets loopback to false if the echo id is 0xFFFF_FFFF (all ones) and to
\* true for every other echo id.
C14_LoopbackDetection ==
    (call.fn = "from_host_frame" /\ call.src = <<>>) =>
        (out.loopback <=> ~AllOnes(call.arg.echo_id))

\* C14: a wire frame whose echo id is 0x1FFF_FFFF, all ones in the low 29
\* bits only, has been decoded as a loopback frame
C14_Witness ==
    /\ call.fn = "from_host_frame"
    /\ call.src = <<>>
    /\ call.arg.echo_id = [hi |-> 0, lo |-> 536870911]
    /\ call.arg.can_id = [hi |-> 7, lo |-> 536870911]
    /\ out.loopback

\* ----------------------------------------------------------- bit timing

\* calculate_bit_timing has returned
Calculated == call.fn = "calculate_bit_timing"

\* effective_bitrate has returned for the timing computed for call.src[1]
Effective == call.fn = "effective_bitrate"

\* |a - b|
Dist(a, b) == IF a >= b THEN a - b ELSE b - a

\* the effective bitrate `eff` differs from the bitrate b by less than 0.5%
\* of b
WithinHalfPercent(eff, b) == Dist(eff, b) * 200 < b

C16_OkOrInvalidBitrate ==
    Calculated =>
        \/ out.kind = "Ok"
        \/ out = [kind |-> "InvalidBitrate", bitrate |-> call.arg.bitrate]

\* C16: in a build with overflow checks the call for 24 MHz and 6 Mbit/s,
\* four quanta per bit, has panicked
C16_Witness ==
    /\ Calculated
    /\ overflow_checks
    /\ call.arg = [clk |-> 24000000, bitrate |-> 6000000]
    /\ out.kind = "Panic"

\* ------------------------------------------------------ bitrate setters

\* the step is a call of set_bitrate or set_data_bitrate in Idle, for a
\* valid channel of a device that supports what the setter needs
IdleBitrateStep ==
    /\ SetterStep
    /\ op'.name \in {"set_bitrate", "set_data_bitrate"}
    /\ ~running
    /\ op'.channel <= channel_count
    /\ Supported(op'.name)

\* the timing command the setter `name` pushes
TimingCommand(name, channel, bt) ==
    IF name = "set_bitrate" THEN SetBitTiming(channel, bt)
    ELSE SetDataBitTiming(channel, bt)

\* C17: in Idle, set_bitrate (set_data_bitrate) for a valid channel and a
\* bitrate that has a timing returns Ok, pushes that timing to the device
\* for that channel only and stores the requested bitrate in the channel's
\* bitrate (data_bitrate), changing no other channel and no other field; for
\* a bitrate without a timing it returns InvalidBitrate, pushes nothing and
\* changes no Channel.
C17_BitrateSetters ==
    [][IdleBitrateStep =>
        LET c == op'.channel
            b == op'.val
            found == TimingOf[b, FALSE]
        IN  /\ running' = running
            /\ IF found.kind = "Ok"
               THEN /\ ret' = Ok
                    /\ effects' = <<TimingCommand(op'.name, c, found.bt)>>
                    /\ channels' =
                          IF op'.name = "set_bitrate"
                          THEN [channels EXCEPT ![c].bitrate = b]
                          ELSE [channels EXCEPT ![c].data_bitrate = b]
               ELSE /\ ret' = ErrInvalidBitrate(b)
                    /\ effects' = <<>>
                    /\ channels' = channels]_vars

\* C17: in Idle and in a build with overflow checks, set_bitrate(0, 6000000),
\* a bitrate without a timing, has panicked in the calculator
C17_Witness ==
    /\ op.name = "set_bitrate"
    /\ op.channel = 0
    /\ op.val = 6000000
    /\ ~running
    /\ ret = Panicked
    /\ effects = <<>>

\* ------------------------------------------------------------------ stop

\* C18: a stop called while the run flag is false fails with NotRunning and
\* sends the device nothing, no mode command and no stop of the transfers.
\* (stop writes the run flag in its last statement only, so the flag read
\* while stop runs is the flag stop was called with.)
C18_StopWhenNotRunning ==
    /\ [][(op'.name = "stop" /\ ~running)
            => (effects' = <<>> /\ transfers' = transfers)]_vars
    /\ [][(op.name = "stop" /\ ~running /\ ret = Pending /\ ret' # Pending)
            => ret' = ErrNotRunning]_vars

\* C18: a stop called on an Interface that was never started has sent the
\* reset command to channel 0 and stopped the transfers, and is about to
\* return Ok
C18_Witness ==
    /\ op.name = "stop"
    /\ pc = "stop_run"
    /\ ~running
    /\ ret = Pending
    /\ effects = <<SetMode(0, "Reset", 0), StopTransfers>>

\* ------------------------------------------------------- receive thread

\* the receive thread i is blocked in can_rx.recv() on a channel that is
\* empty and disconnected
BlockedOnClosed(i) ==
    /\ i <= Len(tasks)
    /\ tasks[i].pc = "recv"
    /\ can_rx = <<>>
    /\ ~connected

\* C19: a receive thread blocked in recv on the disconnected inbound channel
\* does one thing only, whether the run flag is true or false: it leaves its
\* loop and ends, with no further call of the callback, nothing reported to
\* the caller and the run flag as it was; a thread that has ended stays so.
C19_DisconnectEndsTask ==
    /\ [][\A i \in 1..MaxTasks :
            (BlockedOnClosed(i) /\ tasks'[i].pc # tasks[i].pc)
                => /\ tasks'[i].pc = "done"
                   /\ delivered' = delivered
                   /\ running' = running
                   /\ ret' = ret
                   /\ op' = op]_vars
    /\ [][\A i \in 1..MaxTasks :
            (i <= Len(tasks) /\ tasks[i].pc = "done") => tasks'[i].pc = "done"]_vars

\* C19: the only receive thread has ended on the disconnected channel while
\* the run flag is true
C19_Witness ==
    /\ Len(tasks) = 1
    /\ tasks[1].pc = "done"
    /\ running
    /\ pc = "closed"
    /\ ~connected

\* C20: from the time stop has written the run flag false until a start
\* writes it true again, a receive thread calls the callback for at most one
\* frame, the one it was waiting for; after that call it waits for no other
\* frame, and a thread that tests the flag while it is false ends.
C20_AtMostOneAfterStop ==
    /\ [](\A i \in 1..Len(tasks) :
            /\ tasks[i].late <= 1
            /\ (tasks[i].late = 1 /\ ~running)
                    => tasks[i].pc \in {"callback", "check", "done"})
    /\ [][\A i \in 1..MaxTasks :
            (/\ i <= Len(tasks)
             /\ tasks[i].pc = "check"
             /\ ~running
             /\ tasks'[i].pc # "check") => tasks'[i].pc = "done"]_vars

\* C20: after stop has returned, the receive thread has called the callback
\* for the frame it was waiting for and is back at the test of the flag; the
\* second frame is still in the inbound channel
C20_Witness ==
    /\ Len(tasks) = 1
    /\ ~running
    /\ op.name = "stop"
    /\ ret = Ok
    /\ tasks[1].late = 1
    /\ tasks[1].pc = "check"
    /\ Len(delivered) = 1
    /\ Len(can_rx) = 1

\* ----------------------------------------------------- timing search order

\* the candidate (tolerance number t, prescaler p, segment 1 of s quanta) for
\* clk and bitrate passes the checks of the search: the error of the rounded
\* quanta count is within the tolerance when the count is in 4..32, and what
\* is left for segment 2 is 2..8 quanta
ValidCandidate(clk, bitrate, t, p, s) ==
    LET q == btq_rounded(clk, bitrate, p)
    IN  /\ (q \in 4..32) => err_abs(clk, bitrate, p) <= tolerances[t]
        /\ q - s - 1 \in 2..8

\* C21: a returned timing is the first valid candidate in the order
\* tolerance 0%, 0.1%, 0.5%, then prescaler 1..32 ascending, then segment 1
\* 3..17 ascending: no tighter tolerance has any valid candidate, at its
\* tolerance no smaller prescaler has a valid segment 1, and for its
\* prescaler no smaller segment 1 is valid.
C21_FirstValidCandidate ==
    (Calculated /\ out.kind = "Ok") =>
        LET clk == call.arg.clk
            b == call.arg.bitrate
            bt == out.bt
        IN  \E t \in 1..3 :
                /\ ValidCandidate(clk, b, t, bt.brp, bt.phase_seg1)
                /\ bt.phase_seg2 = btq_rounded(clk, b, bt.brp) - bt.phase_seg1 - 1
                /\ \A t2 \in 1..(t - 1), p \in 1..32, s \in 3..17 :
                        ~ValidCandidate(clk, b, t2, p, s)
                /\ \A p \in 1..(bt.brp - 1), s \in 3..17 :
                        ~ValidCandidate(clk, b, t, p, s)
                /\ \A s \in 3..(bt.phase_seg1 - 1) :
                        ~ValidCandidate(clk, b, t, bt.brp, s)

\* C21: for 24 MHz and 500 kbit/s, where the prescalers 2, 3 and 4 give a
\* whole quanta count and segment 1 may be 15, 16 or 17 for prescaler 2, the
\* timing with prescaler 2 and segment 1 of 15 quanta has been returned
C21_Witness ==
    /\ Calculated
    /\ call.arg = [clk |-> 24000000, bitrate |-> 500000]
    /\ out.kind = "Ok"
    /\ out.bt = [brp |-> 2, prop_seg |-> 0, phase_seg1 |-> 15,
                 phase_seg2 |-> 8, sjw |-> 1]
    /\ ValidCandidate(24000000, 500000, 1, 2, 17)
    /\ ValidCandidate(24000000, 500000, 1, 4, 3)

\* C22: every returned timing has brp in 1..32, prop_seg 0, phase_seg1 in
\* 3..17, phase_seg2 in 2..8 and sjw 1; its quanta count phase_seg1 +
\* phase_seg2 + 1 is the rounded count of its prescaler and lies in 6..26,
\* inside 4..32, so the candidate returned went through the error check.
C22_ReturnedTimingInRange ==
    (Calculated /\ out.kind = "Ok") =>
        LET bt == out.bt
            q == bt.phase_seg1 + bt.phase_seg2 + 1
        IN  /\ bt.brp >= 1 /\ bt.brp <= 32
            /\ bt.prop_seg = 0
            /\ bt.phase_seg1 >= 3 /\ bt.phase_seg1 <= 17
            /\ bt.phase_seg2 >= 2 /\ bt.phase_seg2 <= 8
            /\ bt.sjw = 1
            /\ q >= 6 /\ q <= 26
            /\ q = btq_rounded(call.arg.clk, call.arg.bitrate, bt.brp)
            /\ ~rejected(call.arg.clk, call.arg.bitrate, 50, bt.brp)

\* C22: for 24 MHz and 33,333 bit/s, where the prescalers up to 22 give more
\* than 32 quanta and skip the error check, the timing of prescaler 30 with
\* 24 quanta has been returned
C22_Witness ==
    /\ Calculated
    /\ call.arg = [clk |-> 24000000, bitrate |-> 33333]
    /\ out.kind = "Ok"
    /\ out.bt = [brp |-> 30, prop_seg |-> 0, phase_seg1 |-> 15,
                 phase_seg2 |-> 8, sjw |-> 1]
    /\ \A p \in 1..22 : btq_rounded(24000000, 33333, p) > 32

\* ----------------------------------------------------- mode flags kept

\* the device has the feature bit
HasFeature(bit) == BitAnd(features, bit) # 0

\* C23: after any sequence of calls of the constructor, the setters, start,
\* stop and send, a channel's monitor, loopback or fd is true only if the
\* features have the listen-only, loopback or CAN FD bit; hence no start
\* has returned UnsupportedFeature.
C23_FlagsWithinFeatures ==
    /\ \A i \in 0..channel_count :
            /\ channels[i].monitor => HasFeature(GS_CAN_FEATURE_LISTEN_ONLY)
            /\ channels[i].loopback => HasFeature(GS_CAN_FEATURE_LOOP_BACK)
            /\ channels[i].fd => HasFeature(GS_CAN_FEATURE_FD)
    /\ op.name = "start" => ret.kind # "UnsupportedFeature"

\* C23: on a device that has listen-only and nothing else, set_monitor has
\* set the flag of channel 0 and a later start has returned Ok, putting the
\* channel on the bus in listen-only mode
C23_Witness ==
    /\ features = GS_CAN_FEATURE_LISTEN_ONLY
    /\ channels[0].monitor
    /\ ~channels[0].loopback
    /\ ~channels[0].fd
    /\ op.name = "start"
    /\ ret = Ok
    /\ effects[1] = SetMode(0, "Start", GS_CAN_MODE_LISTEN_ONLY)

\* ------------------------------------------------- callback of a restart

\* C24: after start(cb1), stop, start(cb2), every frame that enters the
\* inbound channel after the second start has returned is handed to cb2,
\* the callback of the thread of the second start, and never to cb1.
C24_FramesGoToLatestCallback ==
    Len(tasks) = 2 => \A k \in 1..Len(delivered) : delivered[k].cb = 2

\* C24: after start(cb1), stop, start(cb2) the thread of the first start,
\* which was waiting in recv during the stop, has handed a frame to cb1
C24_Witness ==
    /\ Len(tasks) = 2
    /\ op.name = "start"
    /\ ret = Ok
    /\ ~tasks[2].alone
    /\ tasks[1].pc = "callback"
    /\ delivered = <<[n |-> 1, cb |-> 1]>>
    /\ Len(produced) = 1

\* ---------------------------------------------------------- failed start

\* the last call was a start that returned UnsupportedFeature
StartFailed == op.name = "start" /\ ret.kind = "UnsupportedFeature"

\* C25: when a start called in Idle has returned UnsupportedFeature, the run
\* flag is false, no receive thread was spawned, the device was not told to
\* begin transfers and no Channel has changed; the next send fails with
\* NotRunning and the next setter is not refused with Running.
C25_FailedStartLeavesIdle ==
    /\ [](StartFailed
            => /\ ~running
               /\ tasks = <<>>
               /\ ~transfers
               /\ \A k \in 1..Len(effects) : effects[k].req = "set_mode")
    /\ [][op'.name = "start" => channels' = channels]_vars
    /\ [][(StartFailed /\ SendStep) => ret' = ErrNotRunning]_vars
    /\ [][(StartFailed /\ SetterStep) => ret' # ErrRunning]_vars

\* C25: on a two-channel device without features, start has put channel 0
\* on the bus and has then failed on the monitor flag of channel 1
C25_Witness ==
    /\ StartFailed
    /\ ret = ErrUnsupportedFeature("Monitor")
    /\ channel_count = 1
    /\ channels[1].monitor
    /\ effects = <<SetMode(0, "Start", 0)>>
    /\ ~running
    /\ tasks = <<>>
    /\ pc = "idle"

====
